---- MODULE Spec2Model ----
(***************************************************************************)
(* A model of the receipt pipeline of jar_v2: parseReceiptImage            *)
(* (src/unnamed/part_000): image preprocessing, the OCR worker's life      *)
(* cycle, and the line-item extraction loop over the recognised text.      *)
(*                                                                         *)
(* A JavaScript string is a sequence of characters, a character a TLA+     *)
(* string of length one (the em-dash is the token EmDash).  A number       *)
(* produced by parseFloat is kept as its decimal digits, [int, frac], in   *)
(* canonical form (no leading zeros in int, no trailing zeros in frac),    *)
(* so that equality of records is equality of numbers and no comparison    *)
(* needs machine arithmetic.                                               *)
(***************************************************************************)
EXTENDS Integers, Sequences, FiniteSets, TLC

(***************************************************************************)
(* Characters                                                              *)
(***************************************************************************)
Digits == <<"0", "1", "2", "3", "4", "5", "6", "7", "8", "9">>

UpperCase == <<"A", "B", "C", "D", "E", "F", "G", "H", "I", "J", "K", "L", "M",
               "N", "O", "P", "Q", "R", "S", "T", "U", "V", "W", "X", "Y", "Z">>

LowerCase == <<"a", "b", "c", "d", "e", "f", "g", "h", "i", "j", "k", "l", "m",
               "n", "o", "p", "q", "r", "s", "t", "u", "v", "w", "x", "y", "z">>

EmDash == "EM-DASH"

Range(s) == {s[i] : i \in DOMAIN s}

IsDigit(c) == c \in Range(Digits)

IsLetter(c) == c \in Range(UpperCase) \cup Range(LowerCase)

\* The class \s of a JavaScript regular expression (and what trim() strips).
WhiteSpace == {" ", "\t", "\r", "\n", "\f"}

IsSpace(c) == c \in WhiteSpace

\* The class . of a JavaScript regular expression: anything but a line terminator.
IsDot(c) == c \notin {"\n", "\r"}

\* Case folding of the i flag.
ToLower(c) ==
  IF c \in Range(UpperCase)
  THEN LowerCase[CHOOSE i \in DOMAIN UpperCase : UpperCase[i] = c]
  ELSE c

DigitVal(c) == (CHOOSE i \in DOMAIN Digits : Digits[i] = c) - 1

(***************************************************************************)
(* String primitives of the JavaScript runtime                             *)
(***************************************************************************)
MinOf(S) == CHOOSE m \in S : \A k \in S : m <= k

MaxOf(S) == CHOOSE m \in S : \A k \in S : m >= k

\* String.prototype.trim
Trim(s) ==
  LET keep == {i \in DOMAIN s : ~IsSpace(s[i])}
  IN  IF keep = {} THEN <<>> ELSE SubSeq(s, MinOf(keep), MaxOf(keep))

\* Leading white space removed (parseFloat skips it).
TrimStart(s) ==
  LET keep == {i \in DOMAIN s : ~IsSpace(s[i])}
  IN  IF keep = {} THEN <<>> ELSE SubSeq(s, MinOf(keep), Len(s))

\* String.prototype.indexOf for a one-character needle: 0-based, -1 when absent.
IndexOf(s, c) ==
  LET at == {i \in DOMAIN s : s[i] = c}
  IN  IF at = {} THEN -1 ELSE MinOf(at) - 1

\* s.replace(/[set]/g, ''): every character of the set removed.
RemoveAll(s, set) ==
  LET Keep(c) == c \notin set
  IN  SelectSeq(s, Keep)

\* s.replace(c, d) with a string pattern: the first occurrence only.
ReplaceFirst(s, c, d) ==
  LET i == IndexOf(s, c)
  IN  IF i = -1 THEN s ELSE [s EXCEPT ![i + 1] = d]

\* s.replace(/[set]+$/, ''): the maximal trailing run of the set removed.
StripTrailing(s, set) ==
  LET keep == {i \in DOMAIN s : s[i] \notin set}
  IN  IF keep = {} THEN <<>> ELSE SubSeq(s, 1, MaxOf(keep))

\* String.prototype.split('\n'): at least one line, the empty one for ''.
RECURSIVE Split(_)
Split(s) ==
  LET i == IndexOf(s, "\n")
  IN  IF i = -1
      THEN <<s>>
      ELSE <<SubSeq(s, 1, i)>> \o Split(SubSeq(s, i + 2, Len(s)))

\* Whether the lower-case word kw occurs in s, letters compared case-blind.
Includes(s, kw) ==
  \E off \in 0..(Len(s) - Len(kw)) :
    \A k \in DOMAIN kw : ToLower(s[off + k]) = kw[k]

(***************************************************************************)
(* Numbers: parseFloat and the comparisons of the sanity check             *)
(***************************************************************************)
NaN == [nan |-> TRUE, int |-> <<>>, frac |-> <<>>]

\* The longest prefix of s made of digits.
DigitRun(s) ==
  LET stop == {i \in DOMAIN s : ~IsDigit(s[i])}
  IN  IF stop = {} THEN s ELSE SubSeq(s, 1, MinOf(stop) - 1)

StripLeadingZeros(d) ==
  LET keep == {i \in DOMAIN d : d[i] # "0"}
  IN  IF keep = {} THEN <<>> ELSE SubSeq(d, MinOf(keep), Len(d))

StripTrailingZeros(d) == StripTrailing(d, {"0"})

Number(int, frac) ==
  [nan |-> FALSE, int |-> StripLeadingZeros(int), frac |-> StripTrailingZeros(frac)]

\* parseFloat: the longest prefix that is a decimal literal, NaN when there is none.
parseFloat(str) ==
  LET s    == TrimStart(str)
      int  == DigitRun(s)
      rest == SubSeq(s, Len(int) + 1, Len(s))
      frac == IF rest # <<>> /\ rest[1] = "."
              THEN DigitRun(SubSeq(rest, 2, Len(rest)))
              ELSE <<>>
  IN  IF int = <<>> /\ frac = <<>> THEN NaN ELSE Number(int, frac)

isNaN(p) == p.nan

\* a < b for two canonical digit strings read as naturals.
RECURSIVE DigitsLess(_, _)
DigitsLess(a, b) ==
  IF Len(a) # Len(b) THEN Len(a) < Len(b)
  ELSE IF a = <<>> THEN FALSE
  ELSE IF a[1] # b[1] THEN DigitVal(a[1]) < DigitVal(b[1])
  ELSE DigitsLess(Tail(a), Tail(b))

\* p > 0
Positive(p) == ~p.nan /\ (p.int # <<>> \/ p.frac # <<>>)

\* p < n for a natural n given by its digits.
LessThanNat(p, n) == ~p.nan /\ DigitsLess(p.int, StripLeadingZeros(n))

(***************************************************************************)
(* The price pattern (part_000 line 98, services/ocr.ts line 21)           *)
(***************************************************************************)
AllDigits(s, from, to) ==
  /\ to <= Len(s)
  /\ \A i \in from..to : IsDigit(s[i])

\* part_000: (?:[.,\s]?[0-9]{3})*[.,][0-9]{2} matched on s from position i
\* to its end.
RECURSIVE PriceTail(_, _)
PriceTail(s, i) ==
  \/ /\ i + 2 = Len(s)
     /\ s[i] \in {".", ","}
     /\ AllDigits(s, i + 1, i + 2)
  \/ /\ i + 3 < Len(s)
     /\ s[i] \in {".", ","} \/ IsSpace(s[i])
     /\ AllDigits(s, i + 1, i + 3)
     /\ PriceTail(s, i + 4)
  \/ /\ i + 2 < Len(s)
     /\ AllDigits(s, i, i + 2)
     /\ PriceTail(s, i + 3)

\* part_000: [0-9]{1,3}(?:[.,\s]?[0-9]{3})*[.,][0-9]{2} matched on the whole of s.
PriceToken(s) ==
  \E k \in 1..3 :
    /\ k < Len(s)
    /\ AllDigits(s, 1, k)
    /\ PriceTail(s, k + 1)

\* services/ocr.ts: (?:[.,][0-9]{3})*[.,][0-9]{2} from position i to the end.
RECURSIVE PriceTailSvc(_, _)
PriceTailSvc(s, i) ==
  \/ /\ i + 2 = Len(s)
     /\ s[i] \in {".", ","}
     /\ AllDigits(s, i + 1, i + 2)
  \/ /\ i + 3 < Len(s)
     /\ s[i] \in {".", ","}
     /\ AllDigits(s, i + 1, i + 3)
     /\ PriceTailSvc(s, i + 4)

\* services/ocr.ts: [0-9]{1,3}(?:[.,][0-9]{3})*[.,][0-9]{2} on the whole of s.
PriceTokenSvc(s) ==
  \E k \in 1..3 :
    /\ k < Len(s)
    /\ AllDigits(s, 1, k)
    /\ PriceTailSvc(s, k + 1)

\* The closing \s*$ of both patterns: the positions after which only white
\* space follows.
MatchEnds(s) == {k \in DOMAIN s : \A a \in (k + 1)..Len(s) : IsSpace(s[a])}

\* The spans <<j, k>> with a price token at s[j+1..k] that can close a match.
TokenSpans(s) ==
  {sp \in (DOMAIN s) \X MatchEnds(s) :
     sp[1] < sp[2] /\ PriceToken(SubSeq(s, sp[1] + 1, sp[2]))}

TokenSpansSvc(s) ==
  {sp \in (DOMAIN s) \X MatchEnds(s) :
     sp[1] < sp[2] /\ PriceTokenSvc(SubSeq(s, sp[1] + 1, sp[2]))}

\* ^(.+?) : group 1 = s[1..i], at least one character, none a line terminator.
NameGroup(s, i) == i >= 1 /\ \A a \in 1..i : IsDot(s[a])

\* The separator as \s* would have it: white space, or nothing at all.
SeparatorOptional(s, i, j) == i <= j /\ \A a \in (i + 1)..j : IsSpace(s[a])

\* \s+ : s[i+1..j], at least one character, all white space.
Separator(s, i, j) == i < j /\ \A a \in (i + 1)..j : IsSpace(s[a])

\* Every way /^(.+?)\s+(token)\s*$/ matches s: group 1 = s[1..i], white space
\* s[i+1..j], group 2 = s[j+1..k].
Splits(s, spans) ==
  UNION { { <<i, sp[1], sp[2]>> :
              i \in {i \in 1..sp[1] : NameGroup(s, i) /\ Separator(s, i, sp[1])} }
          : sp \in spans }

\* String.prototype.match: null (NoMatch), or the two groups. Group 1 is
\* lazy, so the match with the shortest group 1 is the one returned.
NoMatch == [matched |-> FALSE, g1 |-> <<>>, g2 |-> <<>>]

RegexMatch(s, spans) ==
  LET all == Splits(s, spans)
  IN  IF all = {} THEN NoMatch
      ELSE LET m == CHOOSE m \in all : \A o \in all : m[1] <= o[1]
           IN  [matched |-> TRUE,
                g1 |-> SubSeq(s, 1, m[1]),
                g2 |-> SubSeq(s, m[2] + 1, m[3])]

priceRegexMatch(s) == RegexMatch(s, TokenSpans(s))

priceRegexMatchSvc(s) == RegexMatch(s, TokenSpansSvc(s))

(***************************************************************************)
(* The body of the extraction loop of part_000 (lines 100-133)             *)
(***************************************************************************)
\* /total|subtotal|change|cash|visa|mastercard|date|time|tax/i
Keywords ==
  { <<"t", "o", "t", "a", "l">>,
    <<"s", "u", "b", "t", "o", "t", "a", "l">>,
    <<"c", "h", "a", "n", "g", "e">>,
    <<"c", "a", "s", "h">>,
    <<"v", "i", "s", "a">>,
    <<"m", "a", "s", "t", "e", "r", "c", "a", "r", "d">>,
    <<"d", "a", "t", "e">>,
    <<"t", "i", "m", "e">>,
    <<"t", "a", "x">> }

\* The filter without its i flag: the keywords in lower case only.
keywordRegexTestCaseSensitive(trimmedLine) ==
  \E kw \in Keywords :
    \E off \in 0..(Len(trimmedLine) - Len(kw)) :
      \A k \in DOMAIN kw : trimmedLine[off + k] = kw[k]

keywordRegexTest(trimmedLine) == \E kw \in Keywords : Includes(trimmedLine, kw)

\* /[.|_-]+$/ with the em-dash in the class: the trailing leaders of a name.
TrailingNoise == {".", "|", "_", EmDash, "-"}

\* [a-zA-Z0-9\s%&()-]: what a name keeps.
NameChar(c) == IsLetter(c) \/ IsDigit(c) \/ IsSpace(c) \/ c \in {"%", "&", "(", ")", "-"}

\* Lines 110-112.
cleanName(g1) ==
  LET stripped == StripTrailing(Trim(g1), TrailingNoise)
  IN  SelectSeq(stripped, NameChar)

\* Lines 117-124: white space removed, then the separator test on the FIRST
\* comma and the FIRST dot (indexOf), and replace(',', '.') on the first comma.
normalizePrice(g2) ==
  LET priceStr == RemoveAll(g2, WhiteSpace)
  IN  IF IndexOf(priceStr, ",") > IndexOf(priceStr, ".")
      THEN ReplaceFirst(RemoveAll(priceStr, {"."}), ",", ".")
      ELSE RemoveAll(priceStr, {","})

\* The upper bound of the sanity check, price < 10000.
PriceLimit == <<"1", "0", "0", "0", "0">>

\* The sanity check with its upper bound included: price <= 10000.
sanityCheckInclusive(name, price) ==
  /\ Len(name) > 1
  /\ ~isNaN(price)
  /\ Positive(price)
  /\ LessThanNat(price, PriceLimit) \/ (price.int = PriceLimit /\ price.frac = <<>>)

\* name.length > 1 && !isNaN(price) && price > 0 && price < 10000
sanityCheck(name, price) ==
  /\ Len(name) > 1
  /\ ~isNaN(price)
  /\ Positive(price)
  /\ LessThanNat(price, PriceLimit)

\* Line 106: lines too short to be items.
MinLineLength == 5

\* The candidate of one line: whether the line gets as far as the sanity
\* check, and the name and price it is checked with.
NoCandidate == [found |-> FALSE, name |-> <<>>, price |-> NaN]

candidateOf(line) ==
  LET trimmedLine == Trim(line)
      match == priceRegexMatch(trimmedLine)
  IN  IF keywordRegexTest(trimmedLine) THEN NoCandidate
      ELSE IF Len(trimmedLine) < MinLineLength THEN NoCandidate
      ELSE IF ~match.matched THEN NoCandidate
      ELSE [found |-> TRUE,
            name  |-> cleanName(match.g1),
            price |-> parseFloat(normalizePrice(match.g2))]

\* The loop body putting an accepted item first instead of last.
processLinePrepend(items, line) ==
  LET c == candidateOf(line)
  IN  IF c.found /\ sanityCheck(c.name, c.price)
      THEN <<[name |-> c.name, price |-> c.price]>> \o items
      ELSE items

\* One iteration of for (const line of lines): items after the line.
processLine(items, line) ==
  LET c == candidateOf(line)
  IN  IF c.found /\ sanityCheck(c.name, c.price)
      THEN Append(items, [name |-> c.name, price |-> c.price])
      ELSE items

(***************************************************************************)
(* The body of the extraction loop of services/ocr.ts (lines 23-40)        *)
(***************************************************************************)
\* /total|tax|subtotal|change|cash|visa|mastercard/i
KeywordsSvc ==
  { <<"t", "o", "t", "a", "l">>,
    <<"t", "a", "x">>,
    <<"s", "u", "b", "t", "o", "t", "a", "l">>,
    <<"c", "h", "a", "n", "g", "e">>,
    <<"c", "a", "s", "h">>,
    <<"v", "i", "s", "a">>,
    <<"m", "a", "s", "t", "e", "r", "c", "a", "r", "d">> }

keywordRegexTestSvc(trimmedLine) == \E kw \in KeywordsSvc : Includes(trimmedLine, kw)

\* The class of line 30 as the file's bytes spell it: the em-dash read as
\* three characters (a-circumflex, euro sign, right double quote).
TrailingNoiseSvc == {".", "|", "_", "A-CIRCUMFLEX", "EURO", "RIGHT-QUOTE", "-"}

\* Line 30.
cleanNameSvc(g1) == Trim(StripTrailing(Trim(g1), TrailingNoiseSvc))

\* Line 32: replace(',', '.') on the first comma.
normalizePriceSvc(g2) == ReplaceFirst(g2, ",", ".")

\* name.length > 2 && !isNaN(price) && price > 0
sanityCheckSvc(name, price) ==
  /\ Len(name) > 2
  /\ ~isNaN(price)
  /\ Positive(price)

candidateOfSvc(line) ==
  LET trimmedLine == Trim(line)
      match == priceRegexMatchSvc(trimmedLine)
  IN  IF keywordRegexTestSvc(trimmedLine) THEN NoCandidate
      ELSE IF ~match.matched THEN NoCandidate
      ELSE [found |-> TRUE,
            name  |-> cleanNameSvc(match.g1),
            price |-> parseFloat(normalizePriceSvc(match.g2))]

processLineSvc(items, line) ==
  LET c == candidateOfSvc(line)
  IN  IF c.found /\ sanityCheckSvc(c.name, c.price)
      THEN Append(items, [name |-> c.name, price |-> c.price])
      ELSE items

(***************************************************************************)
(* Images and preprocessImage (part_000, lines 10-71)                      *)
(***************************************************************************)
MAX_WIDTH == 1500

\* Math.round of the quotient of two positive integers.
RoundDiv(a, b) == (2 * a + b) \div (2 * b)

\* Lines 52-63 on one pixel: the luminosity in ten-thousandths, clamped to
\* white above 120 and to black below 80, stored in a byte otherwise.
contrast(px) ==
  LET gray == 2126 * px.r + 7152 * px.g + 722 * px.b
      out  == IF gray > 120 * 10000 THEN 255
              ELSE IF gray < 80 * 10000 THEN 0
              ELSE RoundDiv(gray, 10000)
  IN  [r |-> out, g |-> out, b |-> out]

\* A resize that truncates the scaled height instead of rounding it.
canvasSizeTruncated(img) ==
  IF img.width > MAX_WIDTH
  THEN [width |-> MAX_WIDTH, height |-> (img.height * MAX_WIDTH) \div img.width]
  ELSE [width |-> img.width, height |-> img.height]

\* Lines 26-36: the size the canvas is given.
canvasSize(img) ==
  IF img.width > MAX_WIDTH
  THEN [width |-> MAX_WIDTH, height |-> RoundDiv(img.height * MAX_WIDTH, img.width)]
  ELSE [width |-> img.width, height |-> img.height]

\* Line 42: ctx.getImageData(0, 0, width, height) throws an IndexSizeError
\* when the width or the height is zero.
getImageDataThrows(img) == canvasSize(img).width = 0 \/ canvasSize(img).height = 0

\* The body of img.onload once a 2d context is there (lines 26-67).
resizeAndFilter(img) ==
  [kind   |-> "jpeg",
   width  |-> canvasSize(img).width,
   height |-> canvasSize(img).height,
   data   |-> [i \in DOMAIN img.data |-> contrast(img.data[i])]]

\* The images a caller may hand in: a size and a sample of its pixels (one
\* light, one mid-tone, one dark).
SamplePixels ==
  << [r |-> 200, g |-> 210, b |-> 190],
     [r |-> 100, g |-> 100, b |-> 100],
     [r |-> 20, g |-> 10, b |-> 30] >>

Photo(w, h) == [kind |-> "original", width |-> w, height |-> h, data |-> SamplePixels]

Images == { Photo(4000, 3000), Photo(1500, 2000), Photo(4000, 1) }

NoImage == [kind |-> "none", width |-> 0, height |-> 0, data |-> <<>>]

(***************************************************************************)
(* The texts the OCR engine may return                                     *)
(***************************************************************************)
LineFries == <<"F", "r", "i", "e", "s", " ", "5", ",", "5", "0">>

LineBurgerJoined ==
  <<"B", "u", "r", "g", "e", "r", ".", ".", ".", ".", ".", ".", ".", ".", "1", "0", ".", "0", "0">>

LineBurgerSpaced ==
  <<"B", "u", "r", "g", "e", "r", ".", ".", ".", ".", ".", ".", ".", ".", " ", "1", "0", ".", "0", "0">>

LineHeader == <<"B", "U", "R", "G", "E", "R", " ", "P", "L", "A", "C", "E">>

LineSubtotal == <<"S", "U", "B", "T", "O", "T", "A", "L", " ", "1", "5", ".", "5", "0">>

LineTax == <<"T", "A", "X", " ", "1", ".", "5", "0">>

LineTotal == <<"T", "O", "T", "A", "L", " ", "1", "7", ".", "0", "0">>

LineTea == <<" ", "T", "e", "a", "\t", "1", ",", "2", "3", "4", ".", "5", "6", "\r">>

LineGarbage == <<"#", "1", "O", ".", "O", "O">>

\* The lines joined by line breaks.
RECURSIVE JoinLines(_)
JoinLines(ls) ==
  IF ls = <<>> THEN <<>>
  ELSE IF Len(ls) = 1 THEN ls[1]
  ELSE ls[1] \o <<"\n">> \o JoinLines(Tail(ls))

\* The receipt of the end-to-end scenario, and the same with a space before
\* the first price.
ReceiptJoined ==
  JoinLines(<<LineHeader, LineBurgerJoined, LineFries, LineSubtotal, LineTax, LineTotal>>)

ReceiptSpaced ==
  JoinLines(<<LineHeader, LineBurgerSpaced, LineFries, LineSubtotal, LineTax, LineTotal>>)

LineVocabulary == {LineFries, LineTea, LineBurgerJoined, LineGarbage, <<>>}

MaxLines == 3

BoundedSeq(S, n) == UNION {[1..k -> S] : k \in 0..n}

Texts ==
  {JoinLines(ls) : ls \in BoundedSeq(LineVocabulary, MaxLines)}
    \cup {ReceiptJoined, ReceiptSpaced}

(***************************************************************************)
(* parseReceiptImage as a state machine: the copy of part_000 (lines       *)
(* 73-144), which preprocesses the image, and the copy of services/ocr.ts  *)
(* (lines 4-53), which App.tsx imports and which hands the image to the    *)
(* OCR worker as it is.                                                    *)
(***************************************************************************)
VARIABLES
  impl,            \* which copy runs: "part_000" or "services/ocr.ts"
  pc,              \* where the call stands
  base64Image,     \* the argument
  processedImage,  \* what preprocessImage resolved with
  worker,          \* "none", "active" (created), "terminated"
  recognizeCalls,  \* how often worker.recognize was invoked
  ocrInput,        \* the image worker.recognize was last invoked with
  text,            \* ret.data.text
  idx,             \* the line the for loop is at (1-based)
  items,           \* the items collected so far
  console,         \* what was logged, in order
  promise          \* the call's outcome: pending, fulfilled {items}, rejected Error

ocrVars ==
  <<impl, pc, base64Image, processedImage, worker, recognizeCalls, ocrInput, text,
    idx, items, console, promise>>

(***************************************************************************)
(* The state of App (App.tsx lines 13-20) and of the FileReader of an      *)
(* upload (lines 61-87)                                                    *)
(***************************************************************************)
VARIABLES
  step,            \* the AppStep shown
  partyMembers,    \* PartyMember[]
  receiptItems,    \* ReceiptItem[], the state called items in App
  isProcessing,    \* an upload is being read and parsed
  error,           \* the message shown, or Null
  reader           \* the upload: "idle", "reading" (FileReader), "parsing" (awaiting)

appVars == <<step, partyMembers, receiptItems, isProcessing, error, reader>>

vars ==
  <<impl, pc, base64Image, processedImage, worker, recognizeCalls, ocrInput, text,
    idx, items, console, promise, step, partyMembers, receiptItems, isProcessing,
    error, reader>>

\* enum AppStep.
PartyCreation == 1

ReceiptUpload == 2

Verification == 3

Assignment == 4

Summary == 5

Null == "null"

\* generateId(): seven characters of Math.random() in base 36. Nothing
\* keeps two calls from returning the same string.
Ids == {"id1", "id2"}

NameYou == <<"Y", "o", "u">>

\* The useState initial values, for the two ids generateId returned.
AppInitial(id1, id2) ==
  /\ step = PartyCreation
  /\ partyMembers = <<[id |-> id1, name |-> NameYou], [id |-> id2, name |-> <<>>]>>
  /\ receiptItems = <<>>
  /\ isProcessing = FALSE
  /\ error = Null
  /\ reader = "idle"

lines == Split(text)

Pending == [state |-> "pending", items |-> <<>>, message |-> ""]

Fulfilled(its) == [state |-> "fulfilled", items |-> its, message |-> ""]

Rejected(msg) == [state |-> "rejected", items |-> <<>>, message |-> msg]

\* What the two copies throw from catch (part_000 line 142, services/ocr.ts line 51).
ErrorMessage ==
  IF impl = "part_000"
  THEN "Failed to process image. It might be too large or unclear."
  ELSE "Failed to read receipt. Please try a clearer image."

Init ==
  /\ impl \in {"part_000", "services/ocr.ts"}
  /\ pc = IF impl = "part_000" THEN "preprocess" ELSE "createWorker"
  /\ base64Image \in Images
  /\ processedImage = NoImage
  /\ worker = "none"
  /\ recognizeCalls = 0
  /\ ocrInput = NoImage
  /\ text = <<>>
  /\ idx = 0
  /\ items = <<>>
  /\ console = <<>>
  /\ promise = Pending
  /\ AppInitial("id1", "id2")

\* A catch that starts the OCR over once before it gives up.
catchBlockRetry(thrown) ==
  /\ console' = Append(console, [level |-> "error", arg |-> thrown])
  /\ pc' = IF console = <<>> THEN "createWorker" ELSE "settled"
  /\ promise' = IF console = <<>> THEN promise ELSE Rejected(ErrorMessage)

\* catch (error): the error is logged and one Error with the copy's fixed
\* message is thrown in its place.
catchBlock(thrown) ==
  /\ pc' = "settled"
  /\ console' = Append(console, [level |-> "error", arg |-> thrown])
  /\ promise' = Rejected(ErrorMessage)

\* part_000 line 76 up to the await: new Image(), img.src = base64Image.
Preprocess ==
  /\ pc = "preprocess"
  /\ pc' = "loading"
  /\ UNCHANGED <<impl, base64Image, processedImage, worker, recognizeCalls, ocrInput,
                 text, idx, items, console, promise>>
  /\ UNCHANGED appVars

\* img.onload with a 2d context: resolve with the filtered JPEG.
ImgOnload ==
  /\ pc = "loading"
  /\ ~getImageDataThrows(base64Image)
  /\ processedImage' = resizeAndFilter(base64Image)
  /\ pc' = "createWorker"
  /\ UNCHANGED <<impl, base64Image, worker, recognizeCalls, ocrInput, text, idx, items,
                 console, promise>>
  /\ UNCHANGED appVars

\* img.onload without a 2d context (lines 18-21): resolve with the input.
ImgOnloadNoContext ==
  /\ pc = "loading"
  /\ processedImage' = base64Image
  /\ pc' = "createWorker"
  /\ UNCHANGED <<impl, base64Image, worker, recognizeCalls, ocrInput, text, idx, items,
                 console, promise>>
  /\ UNCHANGED appVars

\* img.onload with a 2d context and a canvas of no height: getImageData
\* throws inside the handler, outside the try of parseReceiptImage; neither
\* resolve nor reject is called, the await of line 76 never returns.
ImgOnloadThrows ==
  /\ pc = "loading"
  /\ getImageDataThrows(base64Image)
  /\ pc' = "onloadThrew"
  /\ UNCHANGED <<impl, base64Image, processedImage, worker, recognizeCalls, ocrInput,
                 text, idx, items, console, promise>>
  /\ UNCHANGED appVars

\* img.onerror (line 69): preprocessImage rejects with the event, the await
\* of line 76 throws it into catch.
ImgOnerror ==
  /\ pc = "loading"
  /\ catchBlock("image error event")
  /\ UNCHANGED <<impl, base64Image, processedImage, worker, recognizeCalls, ocrInput,
                 text, idx, items>>
  /\ UNCHANGED appVars

\* createWorker('eng') resolves.
CreateWorker ==
  /\ pc = "createWorker"
  /\ worker' = "active"
  /\ pc' = "recognize"
  /\ UNCHANGED <<impl, base64Image, processedImage, recognizeCalls, ocrInput, text, idx,
                 items, console, promise>>
  /\ UNCHANGED appVars

\* createWorker('eng') rejects.
CreateWorkerThrows ==
  /\ pc = "createWorker"
  /\ catchBlock("createWorker error")
  /\ UNCHANGED <<impl, base64Image, processedImage, worker, recognizeCalls, ocrInput,
                 text, idx, items>>
  /\ UNCHANGED appVars

\* The argument of worker.recognize: processedImage in part_000 (line 82),
\* base64Image in services/ocr.ts (line 10).
recognizeArgument == IF impl = "part_000" THEN processedImage ELSE base64Image

\* worker.recognize resolves with one of the texts.
recognizeResolves(texts) ==
  /\ pc = "recognize"
  /\ recognizeCalls' = recognizeCalls + 1
  /\ ocrInput' = recognizeArgument
  /\ text' \in texts
  /\ pc' = "terminate"
  /\ UNCHANGED <<impl, base64Image, processedImage, worker, idx, items, console, promise>>
  /\ UNCHANGED appVars

Recognize == recognizeResolves(Texts)

\* worker.recognize rejects; nothing between it and catch touches the worker.
RecognizeThrows ==
  /\ pc = "recognize"
  /\ recognizeCalls' = recognizeCalls + 1
  /\ ocrInput' = recognizeArgument
  /\ catchBlock("recognize error")
  /\ UNCHANGED <<impl, base64Image, processedImage, worker, text, idx, items>>
  /\ UNCHANGED appVars

\* await worker.terminate(), then the loop is set up.
Terminate ==
  /\ pc = "terminate"
  /\ worker' = "terminated"
  /\ items' = <<>>
  /\ idx' = 1
  /\ pc' = "loop"
  /\ UNCHANGED <<impl, base64Image, processedImage, recognizeCalls, ocrInput, text,
                 console, promise>>
  /\ UNCHANGED appVars

\* The loop body of the copy that runs.
loopBody(its, line) ==
  IF impl = "part_000" THEN processLine(its, line) ELSE processLineSvc(its, line)

\* One iteration of for (const line of lines).
LoopStep ==
  /\ pc = "loop"
  /\ idx <= Len(lines)
  /\ items' = loopBody(items, lines[idx])
  /\ idx' = idx + 1
  /\ UNCHANGED <<impl, pc, base64Image, processedImage, worker, recognizeCalls, ocrInput,
                 text, console, promise>>
  /\ UNCHANGED appVars

\* text.substring(0, 200) of part_000 line 136.
WarnSampleLength == 200

\* The argument of console.warn: a sample of the text in part_000, the text
\* in services/ocr.ts (line 43).
warnArgument ==
  IF impl = "part_000" /\ Len(text) > WarnSampleLength
  THEN SubSeq(text, 1, WarnSampleLength)
  ELSE text

\* The fallback services/ocr.ts line 44 thinks of: one empty item rather
\* than none.
returnValueWithFallback ==
  IF items = <<>> THEN <<[name |-> <<>>, price |-> Number(<<>>, <<>>)]>> ELSE items

\* The result the call returns: { items }.
returnValue == items

\* After the loop: the warning for an empty result, and return { items }.
Return ==
  /\ pc = "loop"
  /\ idx > Len(lines)
  /\ console' = IF Len(items) = 0
                THEN Append(console, [level |-> "warn", arg |-> warnArgument])
                ELSE console
  /\ promise' = Fulfilled(returnValue)
  /\ pc' = "settled"
  /\ UNCHANGED <<impl, base64Image, processedImage, worker, recognizeCalls, ocrInput,
                 text, idx, items>>
  /\ UNCHANGED appVars

Next ==
  \/ Preprocess
  \/ ImgOnload
  \/ ImgOnloadNoContext
  \/ ImgOnloadThrows
  \/ ImgOnerror
  \/ CreateWorker
  \/ CreateWorkerThrows
  \/ Recognize
  \/ RecognizeThrows
  \/ Terminate
  \/ LoopStep
  \/ Return

Spec == Init /\ [][Next]_vars

(***************************************************************************)
(* The loop on one line: the state after worker.terminate() of part_000    *)
(* for a text of a single line put together from a name, a gap and a       *)
(* numeric token of a leading group, thousands groups and cents.           *)
(***************************************************************************)
NameParts ==
  { <<"a", "b">>,
    <<"T", "a", "x", "i">>,
    <<"a", ".", ".">>,
    <<"A", " ", ".", ".", ".", ".">>,
    <<".", ".", ".", " ", ".", ".", ".", " ", ".", ".", ".">> }

GapParts == { <<" ">>, <<>> }

LeadParts == { <<"0">>, <<"9">>, <<"1", "0">> }

GroupSeps == { <<".">>, <<",">>, <<" ">>, <<>> }

GroupDigits == { <<"0", "0", "0">>, <<"9", "9", "9">> }

FinalSeps == { <<".">>, <<",">> }

CentParts == { <<"0", "0">>, <<"9", "9">> }

MaxGroups == 2

RECURSIVE Flatten(_)
Flatten(ss) == IF ss = <<>> THEN <<>> ELSE Head(ss) \o Flatten(Tail(ss))

GroupRuns ==
  {Flatten(g) : g \in BoundedSeq({sd[1] \o sd[2] : sd \in GroupSeps \X GroupDigits}, MaxGroups)}

TokenInputs ==
  {l \o g \o f \o c : l \in LeadParts, g \in GroupRuns, f \in FinalSeps, c \in CentParts}

LineInputs == {n \o g \o t : n \in NameParts, g \in GapParts, t \in TokenInputs}

InitLine ==
  /\ impl = "part_000"
  /\ pc = "loop"
  /\ base64Image = Photo(1500, 2000)
  /\ processedImage = resizeAndFilter(base64Image)
  /\ worker = "terminated"
  /\ recognizeCalls = 1
  /\ ocrInput = processedImage
  /\ text \in LineInputs
  /\ idx = 1
  /\ items = <<>>
  /\ console = <<>>
  /\ promise = Pending
  /\ AppInitial("id1", "id2")

NextLine ==
  \/ LoopStep
  \/ Return

SpecLine == InitLine /\ [][NextLine]_vars

(***************************************************************************)
(* Properties of the extraction of one line (checked under SpecLine)       *)
(***************************************************************************)
\* The line of a one-line text, and whether the loop has been over it.
theLine == lines[1]

lineDone == pc \in {"loop", "settled"} /\ idx > 1

\* The numeric token as the specification words it: 1-3 digits, groups of a
\* separator (dot, comma or space) and 3 digits, a dot or comma and 2 digits.
RECURSIVE ShapeTail(_, _)
ShapeTail(s, i) ==
  \/ /\ i + 2 = Len(s)
     /\ s[i] \in {".", ","}
     /\ AllDigits(s, i + 1, i + 2)
  \/ /\ i + 3 < Len(s)
     /\ s[i] \in {".", ",", " "}
     /\ AllDigits(s, i + 1, i + 3)
     /\ ShapeTail(s, i + 4)

ShapeToken(s) ==
  \E k \in 1..3 : k < Len(s) /\ AllDigits(s, 1, k) /\ ShapeTail(s, k + 1)

\* The value of a token: the digits before its last two as the integer part
\* (the grouping separators dropped), its last two digits as the cents.
ArithmeticValue(token) ==
  Number(SelectSeq(SubSeq(token, 1, Len(token) - 3), IsDigit),
         SubSeq(token, Len(token) - 1, Len(token)))

\* The value with the rightmost dot or comma read as the decimal point and
\* every other separator dropped.
RightmostValue(token) ==
  LET last == MaxOf({i \in DOMAIN token : token[i] \in {".", ","}})
  IN  Number(SelectSeq(SubSeq(token, 1, last - 1), IsDigit),
             SelectSeq(SubSeq(token, last + 1, Len(token)), IsDigit))

TenThousand == Number(<<"1", "0", "0", "0", "0">>, <<>>)

JustBelowTenThousand == Number(<<"9", "9", "9", "9">>, <<"9", "9">>)

\* The readings of s as <name> <token>: the positions of the separating space,
\* for a name of two letters or more without any keyword in it.
PlainName(n) ==
  /\ Len(n) >= 2
  /\ \A i \in DOMAIN n : IsLetter(n[i])
  /\ ~\E kw \in Keywords : Includes(n, kw)

ShapeReadings(s) ==
  {j \in DOMAIN s : /\ s[j] = " "
                    /\ PlainName(SubSeq(s, 1, j - 1))
                    /\ ShapeToken(SubSeq(s, j + 1, Len(s)))}

\* C1: every line of the shape <name> <1-3 digits>(<sep><3 digits>)*<sep><2 digits>
\* yields exactly one item, priced at the arithmetic value of its token. The
\* claim is read with the rejections of the keyword filter and of the sanity
\* check granted: the name is two letters or more and holds no keyword, the
\* token's value is above 0 and below 10000.
C1_ShapedLineYieldsTokenValue ==
  lineDone =>
    \A j \in ShapeReadings(theLine) :
      LET value == ArithmeticValue(SubSeq(theLine, j + 1, Len(theLine)))
      IN  (Positive(value) /\ LessThanNat(value, PriceLimit)) =>
            /\ Len(items) = 1
            /\ items[1].price = value

\* C2: for every token the price pattern matches, the price is the token's
\* value with its rightmost dot or comma as the decimal point and every other
\* separator removed.
C2_RightmostSeparatorIsDecimal ==
  lineDone =>
    LET match == priceRegexMatch(Trim(theLine))
        c     == candidateOf(theLine)
    IN  (match.matched /\ c.found) =>
          /\ c.price = RightmostValue(match.g2)
          /\ \A i \in DOMAIN items : items[i].price = RightmostValue(match.g2)

\* C4: every item in the result satisfies the sanity predicate (name longer
\* than 1, price a number above 0 and below 10000, that is with at most four
\* integer digits); a candidate priced exactly 10000 or with a cleaned name of
\* length 1 is rejected, one priced 9999.99 or with a cleaned name of length
\* 2 is accepted when the rest of the predicate holds.
C4_ItemsSatisfySanity ==
  /\ \A i \in DOMAIN items :
       /\ Len(items[i].name) > 1
       /\ ~items[i].price.nan
       /\ items[i].price.int # <<>> \/ items[i].price.frac # <<>>
       /\ Len(items[i].price.int) <= 4
  /\ lineDone =>
       LET c == candidateOf(theLine)
           inRange == Positive(c.price) /\ Len(c.price.int) <= 4
           emitted == <<[name |-> c.name, price |-> c.price]>>
       IN  c.found =>
             /\ c.price = TenThousand => items = <<>>
             /\ Len(c.name) = 1 => items = <<>>
             /\ (c.price = JustBelowTenThousand /\ Len(c.name) > 1) => items = emitted
             /\ (Len(c.name) = 2 /\ inRange) => items = emitted

\* C4's case: a two-character name priced 9999.99 has been appended.
C4_BoundaryItemAppended ==
  /\ lineDone
  /\ items = <<[name |-> <<"a", "b">>, price |-> JustBelowTenThousand]>>

\* C5: a line that holds one of the keywords, in any case, yields no item,
\* whether or not it matches the price pattern and passes the sanity check.
C5_KeywordLineYieldsNothing ==
  (lineDone /\ \E kw \in Keywords : Includes(Trim(theLine), kw)) => items = <<>>

\* C5's case: the loop has been over a keyword line that matches the price
\* pattern with a name and a price the sanity check accepts.
C5_KeywordLineWithValidPrice ==
  LET match == priceRegexMatch(Trim(theLine))
  IN  /\ lineDone
      /\ \E kw \in Keywords : Includes(Trim(theLine), kw)
      /\ match.matched
      /\ sanityCheck(cleanName(match.g1), parseFloat(normalizePrice(match.g2)))

(***************************************************************************)
(* Properties of the whole call (checked under Spec)                       *)
(***************************************************************************)
settledWith(state) == pc = "settled" /\ promise.state = state

logged(level, arg) == \E i \in DOMAIN console : console[i] = [level |-> level, arg |-> arg]

ItemBurger ==
  [name |-> <<"B", "u", "r", "g", "e", "r">>, price |-> Number(<<"1", "0">>, <<"0", "0">>)]

ItemFries ==
  [name |-> <<"F", "r", "i", "e", "s">>, price |-> Number(<<"5">>, <<"5", "0">>)]

\* C3 as stated: the six-line receipt, whose second line joins the leaders
\* to the price with no white space, yields Burger 10.00 and Fries 5.50.
C3_JoinedLeadersAccepted ==
  (impl = "part_000" /\ settledWith("fulfilled") /\ text = ReceiptJoined) =>
    promise.items = <<ItemBurger, ItemFries>>

\* C3 as amended: leaders are stripped from the name of a line only when
\* white space separates them from the price. The six-line receipt yields
\* Fries 5.50 alone; with "Burger........ 10.00" as its second line it
\* yields Burger 10.00 and Fries 5.50, in that order; and no line without
\* white space inside it contributes an item.
C3_LeadersNeedWhiteSpace ==
  (impl = "part_000" /\ settledWith("fulfilled")) =>
    /\ text = ReceiptJoined => promise.items = <<ItemFries>>
    /\ text = ReceiptSpaced => promise.items = <<ItemBurger, ItemFries>>
    /\ (\A i \in DOMAIN lines : \A a \in DOMAIN Trim(lines[i]) : ~IsSpace(Trim(lines[i])[a]))
         => promise.items = <<>>

\* C3's case: the call has returned for the six-line receipt.
C3_JoinedReceiptParsed ==
  impl = "part_000" /\ settledWith("fulfilled") /\ text = ReceiptJoined

\* C6: a failure to load the image is absorbed: the call is never rejected
\* because of the image's error event.
C6_ImageLoadFailureAbsorbed ==
  logged("error", "image error event") => promise.state # "rejected"

\* C7: once the call has settled, no created worker is left unterminated.
C7_WorkerReleasedOnEveryExit ==
  pc = "settled" => worker # "active"

UserFacingMessages ==
  { "Failed to process image. It might be too large or unclear.",
    "Failed to read receipt. Please try a clearer image." }

\* C8: when createWorker or recognize raises, the call is rejected with one
\* Error carrying a user-facing message, no items are returned, the error
\* went through catch exactly once, and recognize is never invoked more than
\* once in a call.
C8_EngineFailureRejectsOnce ==
  /\ recognizeCalls <= 1
  /\ (logged("error", "createWorker error") \/ logged("error", "recognize error")) =>
       /\ settledWith("rejected")
       /\ promise.message \in UserFacingMessages
       /\ promise.items = <<>>
       /\ Len(console) = 1

\* C8's case: recognize has raised.
C8_RecognizeRaised ==
  pc = "settled" /\ recognizeCalls = 1 /\ logged("error", "recognize error")

\* Whether a line ends in a well-formed two-decimal price token.
EndsInPriceToken(line) ==
  LET t == Trim(line)
  IN  \E j \in DOMAIN t : PriceToken(SubSeq(t, j, Len(t)))

\* C9: once the OCR has returned a text the call is never rejected; it
\* resolves with the items the loop collected, the warning notwithstanding,
\* and with none when no line of the text ends in a price token.
C9_EmptyExtractionResolves ==
  /\ worker = "terminated" => promise.state # "rejected"
  /\ (pc = "settled" /\ worker = "terminated") =>
       /\ promise.state = "fulfilled"
       /\ promise.items = items
       /\ (\A i \in DOMAIN lines : ~EndsInPriceToken(lines[i])) => promise.items = <<>>

\* C9's case: the call has resolved for a text that is not empty and has no
\* line ending in a price token, and the warning was logged.
C9_GarbageTextResolved ==
  /\ settledWith("fulfilled")
  /\ text # <<>>
  /\ \A i \in DOMAIN lines : ~EndsInPriceToken(lines[i])
  /\ logged("warn", text)

\* The items of a text: the loop body folded over its lines.
RECURSIVE ExtractFrom(_, _)
ExtractFrom(its, ls) ==
  IF ls = <<>> THEN its ELSE ExtractFrom(loopBody(its, Head(ls)), Tail(ls))

Extract(t) == ExtractFrom(<<>>, Split(t))

\* C10: the items of A, a line break, B are the items of A followed by the
\* items of B; every line contributes at most one item, decided from the line
\* alone, and the items are in the order of their lines.
C10_ExtractionIsLineLocal ==
  LET done   == IF pc = "settled" THEN Len(lines) ELSE idx - 1
      ofLine == [i \in 1..done |-> loopBody(<<>>, lines[i])]
  IN  /\ pc = "loop" \/ settledWith("fulfilled") =>
           /\ \A i \in 1..done : Len(ofLine[i]) <= 1
           /\ items = Flatten(ofLine)
      /\ settledWith("fulfilled") =>
           \A p \in DOMAIN text :
             text[p] = "\n" =>
               promise.items = Extract(SubSeq(text, 1, p - 1))
                                 \o Extract(SubSeq(text, p + 1, Len(text)))

\* C10's case: a text of three lines has yielded two different items.
C10_TwoItemsAcrossLines ==
  /\ settledWith("fulfilled")
  /\ Len(lines) = 3
  /\ Len(promise.items) = 2
  /\ promise.items[1] # promise.items[2]

(***************************************************************************)
(* preprocessImage alone (part_000 lines 10-71): the call of line 76 on    *)
(* images of many sizes, up to the point where the await returns, throws   *)
(* or is left waiting.                                                     *)
(***************************************************************************)
ImageWidths == {1, 1499, 1500, 1501, 2000, 3000, 4000}

ImageHeights == {1, 2, 1001, 3000, 4001}

ImageInputs == {Photo(w, h) : w \in ImageWidths, h \in ImageHeights}

InitImage ==
  /\ impl = "part_000"
  /\ pc = "preprocess"
  /\ base64Image \in ImageInputs
  /\ processedImage = NoImage
  /\ worker = "none"
  /\ recognizeCalls = 0
  /\ ocrInput = NoImage
  /\ text = <<>>
  /\ idx = 0
  /\ items = <<>>
  /\ console = <<>>
  /\ promise = Pending
  /\ AppInitial("id1", "id2")

NextImage ==
  \/ Preprocess
  \/ ImgOnload
  \/ ImgOnloadNoContext
  \/ ImgOnloadThrows
  \/ ImgOnerror

SpecImage == InitImage /\ [][NextImage]_vars

(***************************************************************************)
(* Properties of preprocessImage (checked under SpecImage)                 *)
(***************************************************************************)
\* Whether r is h * MAX_WIDTH / w rounded to the nearest integer, halves up.
IsRounded(r, h, w) ==
  /\ 2 * r * w - w <= 2 * h * MAX_WIDTH
  /\ 2 * h * MAX_WIDTH < 2 * r * w + w

\* The size rule of the normalizer on the image out, made from the image in.
SizeRule(in, out) ==
  /\ out.width = MinOf({in.width, MAX_WIDTH})
  /\ in.width > MAX_WIDTH => IsRounded(out.height, in.height, in.width)
  /\ in.width <= MAX_WIDTH => out.width = in.width /\ out.height = in.height
  /\ (in.width = 4000 /\ in.height = 3000) => out.width = 1500 /\ out.height = 1125

LineOf(n, token) == n \o <<" ">> \o token

TokenTen == <<"1", "0", ".", "0", "0">>

\* C12: the name of every emitted item has no white space at either end and
\* so at least two characters that are not white space; the lines
\* '... ... ... 10.00' and 'A .... 10.00' yield no item.
C12_NamesNeverBlank ==
  /\ \A i \in DOMAIN items :
       /\ Trim(items[i].name) = items[i].name
       /\ Len(Trim(items[i].name)) > 1
  /\ (lineDone /\ theLine = LineOf(<<"A", " ", ".", ".", ".", ".">>, TokenTen)) => items = <<>>
  /\ (lineDone /\ theLine = LineOf(<<".", ".", ".", " ", ".", ".", ".", " ", ".", ".", ".">>, TokenTen))
       => items = <<>>

(***************************************************************************)
(* App (App.tsx): the handlers of the five steps, and an upload from the   *)
(* file input to the end of reader.onloadend, with parseReceiptImage of    *)
(* services/ocr.ts in between (the import of line 4).                      *)
(***************************************************************************)
MaxMembers == 2

MaxItems == 1

\* What a user types into a name field, an item's name and an item's price.
MemberNames == {NameYou, <<>>}

ItemNames == {<<"F", "r", "i", "e", "s">>}

PriceInputs == {<<>>}

\* What the file input hands over: no file, a file of another type, an image.
Files == {"none", "text/plain", "image/jpeg"}

\* The texts the OCR engine returns for the uploads: nothing readable, one
\* item; and with them a text of two items.
AppTexts == {LineGarbage, LineFries}

UploadTexts == AppTexts \cup {JoinLines(<<LineBurgerSpaced, LineFries>>)}

Zero == Number(<<>>, <<>>)

\* No call of parseReceiptImage is under way.
NoCall ==
  /\ impl = "services/ocr.ts"
  /\ pc = "idle"
  /\ base64Image = NoImage
  /\ processedImage = NoImage
  /\ worker = "none"
  /\ recognizeCalls = 0
  /\ ocrInput = NoImage
  /\ text = <<>>
  /\ idx = 0
  /\ items = <<>>
  /\ console = <<>>
  /\ promise = Pending

InitApp ==
  /\ NoCall
  /\ \E id1 \in Ids, id2 \in Ids : AppInitial(id1, id2)

memberIds == {partyMembers[i].id : i \in DOMAIN partyMembers}

\* Lines 24-26, the button of line 217.
handleAddMember ==
  /\ step = PartyCreation
  /\ Len(partyMembers) < MaxMembers
  /\ \E id \in Ids : partyMembers' = Append(partyMembers, [id |-> id, name |-> <<>>])
  /\ UNCHANGED <<step, receiptItems, isProcessing, error, reader>>
  /\ UNCHANGED ocrVars

\* Lines 28-31, the button of lines 201-209.
handleRemoveMember ==
  /\ step = PartyCreation
  /\ Len(partyMembers) > 1
  /\ \E id \in memberIds :
       LET keep(m) == m.id # id
       IN  partyMembers' = SelectSeq(partyMembers, keep)
  /\ UNCHANGED <<step, receiptItems, isProcessing, error, reader>>
  /\ UNCHANGED ocrVars

\* Lines 33-35, the input of lines 195-200.
handleMemberNameChange ==
  /\ step = PartyCreation
  /\ \E id \in memberIds, name \in MemberNames :
       partyMembers' = [i \in DOMAIN partyMembers |->
                          IF partyMembers[i].id = id
                          THEN [partyMembers[i] EXCEPT !.name = name]
                          ELSE partyMembers[i]]
  /\ UNCHANGED <<step, receiptItems, isProcessing, error, reader>>
  /\ UNCHANGED ocrVars

\* Lines 37-46, the button of line 224 (disabled while every name is blank).
validateParty ==
  LET valid(m) == Trim(m.name) # <<>>
      validMembers == SelectSeq(partyMembers, valid)
  IN  /\ step = PartyCreation
      /\ \E i \in DOMAIN partyMembers : valid(partyMembers[i])
      /\ IF Len(validMembers) = 0
         THEN /\ error' = "Please add at least one person."
              /\ UNCHANGED <<step, partyMembers>>
         ELSE /\ partyMembers' = validMembers
              /\ error' = Null
              /\ step' = ReceiptUpload
      /\ UNCHANGED <<receiptItems, isProcessing, reader>>
      /\ UNCHANGED ocrVars

\* Lines 49-61 and 87, the input of lines 239-246 (disabled while processing):
\* up to reader.readAsDataURL(file).
handleFileUpload ==
  /\ step = ReceiptUpload
  /\ ~isProcessing
  /\ \E file \in Files :
       IF file = "none"
       THEN UNCHANGED <<isProcessing, error, reader>>
       ELSE IF file # "image/jpeg"
       THEN /\ error' = "Please upload a valid image file."
            /\ UNCHANGED <<isProcessing, reader>>
       ELSE /\ isProcessing' = TRUE
            /\ error' = Null
            /\ reader' = "reading"
  /\ UNCHANGED <<step, partyMembers, receiptItems>>
  /\ UNCHANGED ocrVars

\* Lines 62-65: reader.onloadend up to the await; parseReceiptImage starts.
onloadend ==
  /\ reader = "reading"
  /\ reader' = "parsing"
  /\ impl' = "services/ocr.ts"
  /\ pc' = "createWorker"
  /\ base64Image' = Photo(1500, 2000)
  /\ UNCHANGED <<processedImage, worker, recognizeCalls, ocrInput, text, idx, items,
                 console, promise>>
  /\ UNCHANGED <<step, partyMembers, receiptItems, isProcessing, error>>

\* worker.recognize resolves with the text of an uploaded receipt.
RecognizeReceipt == recognizeResolves(AppTexts)

\* The call has returned to the await of line 65; its state is gone.
callReturned ==
  /\ pc' = "idle"
  /\ base64Image' = NoImage
  /\ worker' = "none"
  /\ recognizeCalls' = 0
  /\ ocrInput' = NoImage
  /\ text' = <<>>
  /\ idx' = 0
  /\ items' = <<>>
  /\ console' = <<>>
  /\ promise' = Pending
  /\ UNCHANGED <<impl, processedImage>>

\* Lines 67-72: result.items.map(...), with the ids generateId returned.
newItems(result, ids) ==
  [i \in DOMAIN result |->
     [id |-> ids[i], name |-> result[i].name, price |-> result[i].price,
      assignedTo |-> <<>>]]

\* Lines 65-80 and 83-85: the await returns a result.
UploadResolved ==
  /\ reader = "parsing"
  /\ pc = "settled"
  /\ promise.state = "fulfilled"
  /\ \E ids \in [DOMAIN promise.items -> Ids] :
       receiptItems' = newItems(promise.items, ids)
  /\ error' = IF Len(promise.items) = 0
              THEN "We couldn't detect any items automatically. You can add them manually in the next step."
              ELSE error
  /\ step' = Verification
  /\ isProcessing' = FALSE
  /\ reader' = "idle"
  /\ callReturned
  /\ UNCHANGED partyMembers

\* A catch without the finally of lines 83-85.
UploadRejectedNoFinally ==
  /\ reader = "parsing"
  /\ pc = "settled"
  /\ promise.state = "rejected"
  /\ error' = "Failed to read receipt text. Please try a clearer photo."
  /\ reader' = "idle"
  /\ callReturned
  /\ UNCHANGED <<step, partyMembers, receiptItems, isProcessing>>

\* Lines 81-85: the await throws.
UploadRejected ==
  /\ reader = "parsing"
  /\ pc = "settled"
  /\ promise.state = "rejected"
  /\ error' = "Failed to read receipt text. Please try a clearer photo."
  /\ isProcessing' = FALSE
  /\ reader' = "idle"
  /\ callReturned
  /\ UNCHANGED <<step, partyMembers, receiptItems>>

\* The Back button of the upload step (line 266).
BackToPartyCreation ==
  /\ step = ReceiptUpload
  /\ step' = PartyCreation
  /\ UNCHANGED <<partyMembers, receiptItems, isProcessing, error, reader>>
  /\ UNCHANGED ocrVars

itemIds == {receiptItems[i].id : i \in DOMAIN receiptItems}

\* The price field of line 301: parseFloat(e.target.value) || 0.
priceInput(typed) ==
  LET p == parseFloat(typed)
  IN  IF isNaN(p) \/ p = Zero THEN Zero ELSE p

\* Lines 91-98, the inputs of lines 288-304.
handleUpdateItem ==
  /\ step = Verification
  /\ \E id \in itemIds :
       \/ \E value \in ItemNames :
            receiptItems' = [i \in DOMAIN receiptItems |->
                               IF receiptItems[i].id = id
                               THEN [receiptItems[i] EXCEPT !.name = value]
                               ELSE receiptItems[i]]
       \/ \E typed \in PriceInputs :
            receiptItems' = [i \in DOMAIN receiptItems |->
                               IF receiptItems[i].id = id
                               THEN [receiptItems[i] EXCEPT !.price = priceInput(typed)]
                               ELSE receiptItems[i]]
  /\ UNCHANGED <<step, partyMembers, isProcessing, error, reader>>
  /\ UNCHANGED ocrVars

\* Lines 100-102, the button of lines 306-311.
handleDeleteItem ==
  /\ step = Verification
  /\ \E id \in itemIds :
       LET keep(i) == i.id # id
       IN  receiptItems' = SelectSeq(receiptItems, keep)
  /\ UNCHANGED <<step, partyMembers, isProcessing, error, reader>>
  /\ UNCHANGED ocrVars

\* Lines 104-106, the button of line 322.
handleAddItemManual ==
  /\ step = Verification
  /\ Len(receiptItems) < MaxItems
  /\ \E id \in Ids :
       receiptItems' = Append(receiptItems,
                              [id |-> id, name |-> <<"N", "e", "w", " ", "I", "t", "e", "m">>,
                               price |-> Zero, assignedTo |-> <<>>])
  /\ UNCHANGED <<step, partyMembers, isProcessing, error, reader>>
  /\ UNCHANGED ocrVars

\* The Retake button (line 327).
Retake ==
  /\ step = Verification
  /\ step' = ReceiptUpload
  /\ UNCHANGED <<partyMembers, receiptItems, isProcessing, error, reader>>
  /\ UNCHANGED ocrVars

\* The Confirm Items button (line 330).
ConfirmItems ==
  /\ step = Verification
  /\ step' = Assignment
  /\ UNCHANGED <<partyMembers, receiptItems, isProcessing, error, reader>>
  /\ UNCHANGED ocrVars

includes(list, x) == \E k \in DOMAIN list : list[k] = x

\* A toggle that appends whether or not the member is assigned.
newAssignedAlwaysAppend(assignedTo, memberId) == Append(assignedTo, memberId)

\* Lines 113-120.
newAssigned(assignedTo, memberId) ==
  LET other(id) == id # memberId
  IN  IF includes(assignedTo, memberId)
      THEN SelectSeq(assignedTo, other)
      ELSE Append(assignedTo, memberId)

\* Lines 109-124, the buttons of lines 354-372: one per item and member.
toggleAssignment ==
  /\ step = Assignment
  /\ \E itemId \in itemIds, memberId \in memberIds :
       receiptItems' = [i \in DOMAIN receiptItems |->
                          IF receiptItems[i].id # itemId
                          THEN receiptItems[i]
                          ELSE [receiptItems[i] EXCEPT
                                  !.assignedTo = newAssigned(receiptItems[i].assignedTo, memberId)]]
  /\ UNCHANGED <<step, partyMembers, isProcessing, error, reader>>
  /\ UNCHANGED ocrVars

\* Lines 126-131. No control of the source calls it; it is taken as a
\* control of the assignment step, one per member.
assignAllTo ==
  /\ step = Assignment
  /\ \E memberId \in memberIds :
       receiptItems' = [i \in DOMAIN receiptItems |->
                          [receiptItems[i] EXCEPT
                             !.assignedTo = IF includes(receiptItems[i].assignedTo, memberId)
                                            THEN receiptItems[i].assignedTo
                                            ELSE Append(receiptItems[i].assignedTo, memberId)]]
  /\ UNCHANGED <<step, partyMembers, isProcessing, error, reader>>
  /\ UNCHANGED ocrVars

\* The Back button of the assignment step (line 391).
BackToVerification ==
  /\ step = Assignment
  /\ step' = Verification
  /\ UNCHANGED <<partyMembers, receiptItems, isProcessing, error, reader>>
  /\ UNCHANGED ocrVars

\* The Calculate Split button (line 392).
CalculateSplit ==
  /\ step = Assignment
  /\ step' = Summary
  /\ UNCHANGED <<partyMembers, receiptItems, isProcessing, error, reader>>
  /\ UNCHANGED ocrVars

\* The Edit Assignments button (line 444).
EditAssignments ==
  /\ step = Summary
  /\ step' = Assignment
  /\ UNCHANGED <<partyMembers, receiptItems, isProcessing, error, reader>>
  /\ UNCHANGED ocrVars

\* Lines 156-160, the Start Over button (line 447).
resetApp ==
  /\ step = Summary
  /\ step' = PartyCreation
  /\ receiptItems' = <<>>
  /\ error' = Null
  /\ UNCHANGED <<partyMembers, isProcessing, reader>>
  /\ UNCHANGED ocrVars

NextApp ==
  \/ handleAddMember
  \/ handleRemoveMember
  \/ handleMemberNameChange
  \/ validateParty
  \/ BackToPartyCreation
  \/ handleFileUpload
  \/ onloadend
  \/ CreateWorker
  \/ CreateWorkerThrows
  \/ RecognizeReceipt
  \/ RecognizeThrows
  \/ Terminate
  \/ LoopStep
  \/ Return
  \/ UploadResolved
  \/ UploadRejected
  \/ handleUpdateItem
  \/ handleDeleteItem
  \/ handleAddItemManual
  \/ Retake
  \/ ConfirmItems
  \/ toggleAssignment
  \/ assignAllTo
  \/ BackToVerification
  \/ CalculateSplit
  \/ EditAssignments
  \/ resetApp

SpecApp == InitApp /\ [][NextApp]_vars

(***************************************************************************)
(* The upload on its own: App with the handlers of the first two steps,    *)
(* the only ones within reach while an upload is processed, and Retake to  *)
(* come back for another upload.                                           *)
(***************************************************************************)
RecognizeUpload == recognizeResolves(UploadTexts)

NextUpload ==
  \/ handleAddMember
  \/ handleRemoveMember
  \/ handleMemberNameChange
  \/ validateParty
  \/ BackToPartyCreation
  \/ handleFileUpload
  \/ onloadend
  \/ CreateWorker
  \/ CreateWorkerThrows
  \/ RecognizeUpload
  \/ RecognizeThrows
  \/ Terminate
  \/ LoopStep
  \/ Return
  \/ UploadResolved
  \/ UploadRejected
  \/ Retake

SpecUpload == InitApp /\ [][NextUpload]_vars

\* The steps of LoopStep, told by its guard and its counter.
loopAdvances == pc = "loop" /\ idx <= Len(lines) /\ idx' = idx + 1

\* Every await of an upload settles and every continuation runs: the
\* FileReader ends, createWorker, recognize and terminate settle, the loop
\* goes on, and the handler resumes once the call has settled.
SpecUploadFair ==
  /\ SpecUpload
  /\ WF_vars(onloadend)
  /\ WF_vars(CreateWorker \/ CreateWorkerThrows)
  /\ WF_vars(RecognizeUpload \/ RecognizeThrows)
  /\ WF_vars(Terminate)
  /\ WF_idx(loopAdvances)
  /\ WF_vars(Return)
  /\ WF_vars(UploadResolved)
  /\ WF_vars(UploadRejected)

(***************************************************************************)
(* Properties of an upload (checked under SpecUploadFair)                   *)
(***************************************************************************)
\* The step in which the handler of an upload ends.
uploadEnds == isProcessing /\ ~isProcessing'

\* The items shown are the parsed ones, in their order, assigned to nobody.
showsParsed(shown, parsed) ==
  /\ Len(shown) = Len(parsed)
  /\ \A i \in DOMAIN parsed :
       /\ shown[i].name = parsed[i].name
       /\ shown[i].price = parsed[i].price
       /\ shown[i].assignedTo = <<>>

\* C13: an upload that has set isProcessing sets it back to false in the
\* end, and does so in one of two ways. When parseReceiptImage has resolved,
\* with items or without, the items are replaced by the parsed ones in their
\* order, each assigned to nobody, and the step becomes Verification, where
\* an item can be added by hand; when it has rejected, the step and the
\* items stay as they are and an error message is set.
C13_UploadSettlesOneOfTwoWays ==
  /\ [][uploadEnds =>
          /\ pc = "settled"
          /\ \/ /\ promise.state = "fulfilled"
                /\ showsParsed(receiptItems', promise.items)
                /\ step' = Verification
             \/ /\ promise.state = "rejected"
                /\ step' = step
                /\ receiptItems' = receiptItems
                /\ error' \notin {Null}]_vars
  /\ []((step = Verification /\ Len(receiptItems) < MaxItems) => ENABLED handleAddItemManual)
  /\ isProcessing ~> ~isProcessing

\* C13's case: an upload has ended with the two parsed items shown for
\* verification, in the order of their lines.
C13_ParsedItemsShown ==
  /\ step = Verification
  /\ ~isProcessing
  /\ reader = "idle"
  /\ error = Null
  /\ showsParsed(receiptItems, <<ItemBurger, ItemFries>>)

(***************************************************************************)
(* calculateSummary (App.tsx lines 134-154), in exact fractions            *)
(***************************************************************************)
RECURSIVE ToNat(_)
ToNat(d) == IF d = <<>> THEN 0 ELSE 10 * ToNat(SubSeq(d, 1, Len(d) - 1)) + DigitVal(d[Len(d)])

RECURSIVE PowerOfTen(_)
PowerOfTen(n) == IF n = 0 THEN 1 ELSE 10 * PowerOfTen(n - 1)

\* A price as a fraction.
Fraction(p) == [num |-> ToNat(p.int \o p.frac), den |-> PowerOfTen(Len(p.frac))]

FracZero == [num |-> 0, den |-> 1]

FracAdd(a, b) == [num |-> a.num * b.den + b.num * a.den, den |-> a.den * b.den]

FracDiv(a, n) == [num |-> a.num, den |-> a.den * n]

FracEq(a, b) == a.num * b.den = b.num * a.den

\* Lines 145-149: the shares of one item, member by member.
RECURSIVE creditShares(_, _, _)
creditShares(summary, assignedTo, splitPrice) ==
  IF assignedTo = <<>> THEN summary
  ELSE LET memberId == Head(assignedTo)
           credited == IF memberId \in DOMAIN summary
                       THEN [summary EXCEPT ![memberId] = FracAdd(@, splitPrice)]
                       ELSE summary
       IN  creditShares(credited, Tail(assignedTo), splitPrice)

\* Lines 140-151: items.forEach.
RECURSIVE summaryOver(_, _)
summaryOver(acc, its) ==
  IF its = <<>> THEN acc
  ELSE LET item == Head(its)
           next == IF Len(item.assignedTo) = 0
                   THEN [acc EXCEPT !.unassignedTotal = FracAdd(@, Fraction(item.price))]
                   ELSE [acc EXCEPT !.summary =
                           creditShares(@, item.assignedTo,
                                        FracDiv(Fraction(item.price), Len(item.assignedTo)))]
       IN  summaryOver(next, Tail(its))

calculateSummary ==
  summaryOver([summary |-> [id \in memberIds |-> FracZero], unassignedTotal |-> FracZero],
              receiptItems)

(***************************************************************************)
(* Properties of the assignments (checked under SpecApp)                   *)
(***************************************************************************)
RECURSIVE FracSum(_, _)
FracSum(f, S) ==
  IF S = {} THEN FracZero
  ELSE LET x == CHOOSE x \in S : TRUE
       IN  FracAdd(f[x], FracSum(f, S \ {x}))

RECURSIVE totalPrice(_)
totalPrice(its) ==
  IF its = <<>> THEN FracZero ELSE FracAdd(Fraction(Head(its).price), totalPrice(Tail(its)))

\* C14: in the steps Assignment and Summary every id in an item's
\* assignedTo is the id of a party member and is there once; and so the
\* amounts of calculateSummary, those of the members and the unassigned
\* one, add up to the prices of the items.
C14_AssignedIdsAreMembers ==
  step \in {Assignment, Summary} =>
    /\ \A i \in DOMAIN receiptItems :
         LET a == receiptItems[i].assignedTo
         IN  /\ \A k \in DOMAIN a : a[k] \in memberIds
             /\ \A k \in DOMAIN a : \A l \in DOMAIN a : a[k] = a[l] => k = l
    /\ LET result == calculateSummary
       IN  FracEq(FracAdd(FracSum(result.summary, memberIds), result.unassignedTotal),
                  totalPrice(receiptItems))

\* C14's case: the summary of an item with a price, split between two
\* members.
C14_SplitBetweenTwo ==
  /\ step = Summary
  /\ \E i \in DOMAIN receiptItems :
       /\ Len(receiptItems[i].assignedTo) = 2
       /\ Positive(receiptItems[i].price)
  /\ \E id \in memberIds : calculateSummary.summary[id].num > 0

====
